---------------------------- MODULE Spec2Model ----------------------------
(***************************************************************************)
(* A model of the Markdown note store of asab-mcp                          *)
(* (asabmcp/markdown_notes/handler_mcp.py): the path confinement           *)
(* _normalize_path, the note tools (create_or_update_note, delete_note,    *)
(* read_note, list_notes), upload_picture and the two resource handlers,   *)
(* over a small filesystem.                                                *)
(*                                                                         *)
(* Python strings are sequences of one-character strings, so that          *)
(* startswith/endswith, slicing, splitting and joining are computed as     *)
(* the code computes them.  "CR" and "LF" stand for the carriage return    *)
(* and the line feed.                                                      *)
(***************************************************************************)
EXTENDS Naturals, Sequences, FiniteSets

VARIABLES
    files,   \* the regular files of the filesystem: absolute path -> bytes
    dirs,    \* the directories of the filesystem: a set of absolute paths
    last,    \* the last handler call that returned or raised: its arguments and outcome
    calls,   \* the tool calls the MCP service has accepted: pending, or done with their outcome
    probe    \* the (base_path, user_path) pair _normalize_path is applied to, and its result

vars == <<files, dirs, last, calls, probe>>

----------------------------------------------------------------------------
(* Python str operations                                                   *)

SEP == <<"/">>

StartsWith(s, pre) ==
    /\ Len(pre) <= Len(s)
    /\ SubSeq(s, 1, Len(pre)) = pre

EndsWith(s, suf) ==
    /\ Len(suf) <= Len(s)
    /\ SubSeq(s, Len(s) - Len(suf) + 1, Len(s)) = suf

\* s[n:]
DropFirst(s, n) == SubSeq(s, n + 1, Len(s))

\* s[:-n]
DropLast(s, n) == SubSeq(s, 1, Len(s) - n)

HasSep(s) == \E i \in 1..Len(s) : s[i] = "/"

FirstSep(s) == CHOOSE i \in 1..Len(s) : s[i] = "/" /\ \A j \in 1..(i - 1) : s[j] # "/"

LastSep(s) == CHOOSE i \in 1..Len(s) : s[i] = "/" /\ \A j \in (i + 1)..Len(s) : s[j] # "/"

\* s.split('/')
RECURSIVE Split(_)
Split(s) ==
    IF HasSep(s)
    THEN <<SubSeq(s, 1, FirstSep(s) - 1)>> \o Split(DropFirst(s, FirstSep(s)))
    ELSE <<s>>

\* '/'.join(comps)
RECURSIVE JoinSep(_)
JoinSep(comps) ==
    IF Len(comps) = 0 THEN <<>>
    ELSE IF Len(comps) = 1 THEN comps[1]
    ELSE comps[1] \o SEP \o JoinSep(Tail(comps))

\* s.rstrip('/')
RECURSIVE RStripSep(_)
RStripSep(s) ==
    IF Len(s) > 0 /\ s[Len(s)] = "/" THEN RStripSep(DropLast(s, 1)) ELSE s

AllSep(s) == \A i \in 1..Len(s) : s[i] = "/"

\* [c for c in comps if c and c != '.']
RECURSIVE DropEmptyAndDot(_)
DropEmptyAndDot(comps) ==
    IF Len(comps) = 0 THEN <<>>
    ELSE IF comps[1] = <<>> \/ comps[1] = <<".">>
         THEN DropEmptyAndDot(Tail(comps))
         ELSE <<comps[1]>> \o DropEmptyAndDot(Tail(comps))

----------------------------------------------------------------------------
(* posixpath                                                               *)

\* os.getcwd(): the working directory of the server process
Cwd == <<"/", "w">>

\* os.path.join(a, b)
os_path_join(a, b) ==
    IF StartsWith(b, SEP) THEN b
    ELSE IF a = <<>> \/ EndsWith(a, SEP) THEN a \o b
    ELSE a \o SEP \o b

\* the number of slashes os.path.normpath keeps in front: POSIX leaves a path
\* that starts with exactly two slashes to the implementation, so they stay
InitialSlashes(path) ==
    IF ~StartsWith(path, SEP) THEN 0
    ELSE IF StartsWith(path, <<"/", "/">>) /\ ~StartsWith(path, <<"/", "/", "/">>) THEN 2
    ELSE 1

\* the loop of os.path.normpath over the components, new_comps its accumulator
RECURSIVE NormComps(_, _, _)
NormComps(comps, new_comps, initial_slashes) ==
    IF Len(comps) = 0 THEN new_comps
    ELSE LET comp == comps[1]
             rest == Tail(comps)
         IN  IF comp = <<>> \/ comp = <<".">>
             THEN NormComps(rest, new_comps, initial_slashes)
             ELSE IF \/ comp # <<".", ".">>
                     \/ (initial_slashes = 0 /\ Len(new_comps) = 0)
                     \/ (Len(new_comps) > 0 /\ new_comps[Len(new_comps)] = <<".", ".">>)
             THEN NormComps(rest, Append(new_comps, comp), initial_slashes)
             ELSE IF Len(new_comps) > 0
             THEN NormComps(rest, DropLast(new_comps, 1), initial_slashes)
             ELSE NormComps(rest, new_comps, initial_slashes)

Slashes(n) == [i \in 1..n |-> "/"]

\* os.path.normpath(path)
normpath(path) ==
    IF path = <<>> THEN <<".">>
    ELSE LET n == InitialSlashes(path)
             p == Slashes(n) \o JoinSep(NormComps(Split(path), <<>>, n))
         IN  IF p = <<>> THEN <<".">> ELSE p

\* os.path.abspath(path)
abspath(path) ==
    IF StartsWith(path, SEP) THEN normpath(path)
    ELSE normpath(os_path_join(Cwd, path))

\* the longest common leading part of two component lists
RECURSIVE CommonPrefix(_, _)
CommonPrefix(s1, s2) ==
    IF Len(s1) = 0 \/ Len(s2) = 0 \/ s1[1] # s2[1] THEN <<>>
    ELSE <<s1[1]>> \o CommonPrefix(Tail(s1), Tail(s2))

\* os.path.commonpath([p1, p2]) of two absolute paths
commonpath(p1, p2) ==
    SEP \o JoinSep(CommonPrefix(DropEmptyAndDot(Split(p1)), DropEmptyAndDot(Split(p2))))

\* os.path.dirname(p)
dirname(p) ==
    IF ~HasSep(p) THEN <<>>
    ELSE LET head == SubSeq(p, 1, LastSep(p))
         IN  IF AllSep(head) THEN head ELSE RStripSep(head)

\* os.path.basename(p)
basename(p) == IF HasSep(p) THEN DropFirst(p, LastSep(p)) ELSE p

----------------------------------------------------------------------------
(* _normalize_path                                                         *)

\* the value None
None == <<"N", "o", "n", "e", "!">>

\* while user_path.startswith('/'): user_path = user_path[1:]
RECURSIVE StripLeadingSlashes(_)
StripLeadingSlashes(user_path) ==
    IF StartsWith(user_path, SEP) THEN StripLeadingSlashes(DropFirst(user_path, 1))
    ELSE user_path

\* a containment test by raw string prefix, which lets '/notes-evil' pass for '/notes'
within_by_string_prefix(abs_base, abs_user) == StartsWith(abs_user, abs_base)

\* os.path.commonpath([abs_base, abs_user]) == abs_base
within(abs_base, abs_user) == commonpath(abs_base, abs_user) = abs_base

_normalize_path(base_path, user_path) ==
    LET stripped == StripLeadingSlashes(user_path)
        abs_base == abspath(base_path)
        abs_user == abspath(os_path_join(base_path, stripped))
    IN  IF within(abs_base, abs_user) THEN abs_user ELSE None

----------------------------------------------------------------------------
(* The module constants and the configuration                              *)

NOTE_URI_PREFIX == <<"n", "o", "t", "e", ":", "/", "/">>
PICTURE_URI_PREFIX == <<"i", "m", "g", ":", "/", "/">>
NOTE_MIME_TYPE == "text/markdown"
NOTE_EXTENSION == <<".", "m", "d">>
PNG == <<".", "p", "n", "g">>
JPG == <<".", "j", "p", "g">>
GIF == <<".", "g", "i", "f">>
PICTURE_EXTENSIONS == {JPG, PNG, GIF}

\* asab.Config.get("general", "notes", fallback="notes")
NotesDirectory == <<"n", "o", "t", "e", "s">>

----------------------------------------------------------------------------
(* The filesystem: os.path.isfile, os.makedirs, open, os.remove, os.listdir *)

isfile(fs, p) == p \in DOMAIN fs.files

isdir(fs, p) == p \in fs.dirs

exists(fs, p) == isfile(fs, p) \/ isdir(fs, p)

\* the directory p and every directory above it
RECURSIVE SelfAndAncestors(_)
SelfAndAncestors(p) ==
    IF p = <<>> \/ AllSep(p) THEN {p} ELSE {p} \cup SelfAndAncestors(dirname(p))

\* os.makedirs(name, exist_ok=True): the directories it would make
MissingDirs(fs, name) == {d \in SelfAndAncestors(name) : ~exists(fs, d)}

\* os.makedirs(name, exist_ok=True) raises (FileExistsError, NotADirectoryError)
\* when name or a directory above it is a regular file; nothing is made then,
\* as every directory above that file exists already
makedirs_raises(fs, name) == \E d \in SelfAndAncestors(name) : isfile(fs, d)

makedirs(fs, name) == [fs EXCEPT !.dirs = @ \cup MissingDirs(fs, name)]

\* open(p, "w") raises IsADirectoryError on a directory
open_raises(fs, p) == isdir(fs, p) \/ ~isdir(fs, dirname(p))

\* open(p, "w").write(data), open(p, "wb").write(data)
write_file(fs, p, data) ==
    [fs EXCEPT !.files = [q \in DOMAIN fs.files \cup {p} |->
                              IF q = p THEN data ELSE fs.files[q]]]

\* os.remove(p)
remove(fs, p) ==
    [fs EXCEPT !.files = [q \in DOMAIN fs.files \ {p} |-> fs.files[q]]]

\* os.listdir(d): the names of the files and of the directories in d
listdir(fs, d) ==
    {basename(p) : p \in {q \in DOMAIN fs.files \cup fs.dirs : q # d /\ dirname(q) = d}}

\* text mode, newline=None, on write: '\n' becomes os.linesep, which is '\n'
TextWrite(content) == content

\* text mode, newline=None, on read (universal newlines): '\r\n' and a lone
\* '\r' both become '\n'
RECURSIVE TextRead(_)
TextRead(data) ==
    IF Len(data) = 0 THEN <<>>
    ELSE IF data[1] = "CR"
         THEN IF Len(data) > 1 /\ data[2] = "LF"
              THEN <<"LF">> \o TextRead(DropFirst(data, 2))
              ELSE <<"LF">> \o TextRead(Tail(data))
         ELSE <<data[1]>> \o TextRead(Tail(data))

----------------------------------------------------------------------------
(* sorted(): Python orders str by code point                               *)

ord(c) ==
    CASE c = "-" -> 45
      [] c = "." -> 46
      [] c = "/" -> 47
      [] c = ":" -> 58
      [] c = "a" -> 97
      [] c = "b" -> 98
      [] c = "c" -> 99
      [] c = "d" -> 100
      [] c = "e" -> 101
      [] c = "g" -> 103
      [] c = "i" -> 105
      [] c = "j" -> 106
      [] c = "m" -> 109
      [] c = "n" -> 110
      [] c = "o" -> 111
      [] c = "p" -> 112
      [] c = "q" -> 113
      [] c = "s" -> 115
      [] c = "t" -> 116
      [] c = "x" -> 120
      [] OTHER -> 0

RECURSIVE StrLess(_, _)
StrLess(a, b) ==
    IF Len(b) = 0 THEN FALSE
    ELSE IF Len(a) = 0 THEN TRUE
    ELSE IF a[1] = b[1] THEN StrLess(Tail(a), Tail(b))
    ELSE ord(a[1]) < ord(b[1])

RECURSIVE sorted(_)
sorted(S) ==
    IF S = {} THEN <<>>
    ELSE LET m == CHOOSE x \in S : \A y \in S \ {x} : StrLess(x, y)
         IN  <<m>> \o sorted(S \ {m})

----------------------------------------------------------------------------
(* What a handler returns or raises                                        *)

NoSummary == [kind |-> "", count |-> 0, suffix |-> "", display |-> <<>>, bullets |-> <<>>,
              withdirs |-> FALSE, dircount |-> 0, dirsuffix |-> "", dirbullets |-> <<>>]

\* one record shape for every handler: the call (op, path, content, directories),
\* how it ended (status), the confined path (target), the resource link or the
\* text returned, and the filesystem entries the call made, wrote, read or removed
Blank == [op |-> "", path |-> <<>>, content |-> <<>>, directories |-> FALSE,
          status |-> "", target |-> None,
          uri |-> <<>>, name |-> <<>>, description |-> <<>>, mimeType |-> "",
          text |-> <<>>, summary |-> NoSummary, links |-> <<>>, resources |-> {},
          touched |-> {}]

Call(op, path, content, directories) ==
    [Blank EXCEPT !.op = op, !.path = path, !.content = content, !.directories = directories]

\* raise ValueError("Path is not within the notes directory")
ConfinementError(call) == [call EXCEPT !.status = "ConfinementError"]

\* raise ValueError(f"Note '{path}' does not exist. ...") and
\* raise ValueError(f"Directory '{directory}' does not exist. ...")
NotFound(call, target) == [call EXCEPT !.status = "NotFound", !.target = target]

\* an OSError of os.makedirs or open leaves the handler
OSError(call, target) == [call EXCEPT !.status = "OSError", !.target = target]

\* if not path.endswith(NOTE_EXTENSION): path += NOTE_EXTENSION
WithExtension(path) ==
    IF EndsWith(path, NOTE_EXTENSION) THEN path ELSE path \o NOTE_EXTENSION

----------------------------------------------------------------------------
(* The handlers.  Each is a coroutine without an await: once started it    *)
(* runs to its return or raise.  Each maps the filesystem fs and its       *)
(* arguments to the filesystem it leaves and the outcome.                  *)

\* new_note = not os.path.isfile(note_path), evaluated after the write
new_note_after_write(fs, note_path) == FALSE

\* new_note = not os.path.isfile(note_path), evaluated before the write
new_note(fs, note_path) == ~isfile(fs, note_path)

tool_create_or_update_note(fs, path0, content) ==
    LET call == Call("create_or_update_note", path0, content, FALSE)
        path == WithExtension(path0)
        note_path == _normalize_path(NotesDirectory, path)
        fs1 == makedirs(fs, dirname(note_path))
        made == MissingDirs(fs, dirname(note_path))
        created == new_note(fs1, note_path)
    IN  IF note_path = None
        THEN [fs |-> fs, res |-> ConfinementError(call)]
        ELSE IF makedirs_raises(fs, dirname(note_path))
        THEN [fs |-> fs, res |-> OSError(call, note_path)]
        ELSE IF open_raises(fs1, note_path)
        THEN [fs |-> fs1, res |-> [OSError(call, note_path) EXCEPT !.touched = made]]
        ELSE [fs |-> write_file(fs1, note_path, TextWrite(content)),
              res |-> [call EXCEPT
                         !.status = "ok",
                         !.target = note_path,
                         !.uri = NOTE_URI_PREFIX \o SEP \o path,
                         !.name = path,
                         !.description = IF created THEN <<"Created a Markdown note">>
                                                    ELSE <<"Updated a Markdown note">>,
                         !.mimeType = NOTE_MIME_TYPE,
                         !.touched = made \cup {note_path}]]

\* os.remove(note_path) that also removes the directory it leaves empty
remove_and_prune(fs, p) ==
    LET fs1 == remove(fs, p)
    IN  IF listdir(fs1, dirname(p)) = {} /\ dirname(p) # abspath(NotesDirectory)
        THEN [fs1 EXCEPT !.dirs = @ \ {dirname(p)}]
        ELSE fs1

\* os.remove(note_path)
remove_note(fs, note_path) == remove(fs, note_path)

\* a delete_note that returns its confirmation without looking for the file
delete_outcome_unchecked(fs, call, path, note_path) ==
    [fs |-> IF isfile(fs, note_path) THEN remove_note(fs, note_path) ELSE fs,
     res |-> [call EXCEPT !.status = "ok", !.target = note_path, !.text = path,
                          !.touched = {note_path}]]

\* lines 124-131 of tool_delete_note, the path being confined
delete_outcome(fs, call, path, note_path) ==
    IF ~isfile(fs, note_path)
    THEN [fs |-> fs, res |-> NotFound(call, note_path)]
    ELSE [fs |-> remove_note(fs, note_path),
          res |-> [call EXCEPT !.status = "ok", !.target = note_path, !.text = path,
                               !.touched = {note_path}]]

tool_delete_note(fs, path0) ==
    LET call == Call("delete_note", path0, <<>>, FALSE)
        path == WithExtension(path0)
        note_path == _normalize_path(NotesDirectory, path)
    IN  IF note_path = None
        THEN [fs |-> fs, res |-> ConfinementError(call)]
        ELSE delete_outcome(fs, call, path, note_path)

tool_read_note(fs, path0) ==
    LET call == Call("read_note", path0, <<>>, FALSE)
        path == WithExtension(path0)
        note_path == _normalize_path(NotesDirectory, path)
    IN  IF note_path = None
        THEN [fs |-> fs, res |-> ConfinementError(call)]
        ELSE IF ~isfile(fs, note_path)
        THEN [fs |-> fs, res |-> NotFound(call, note_path)]
        ELSE [fs |-> fs,
              res |-> [call EXCEPT !.status = "ok", !.target = note_path,
                                   !.text = TextRead(fs.files[note_path]),
                                   !.touched = {note_path}]]

\* [MCPToolResultResourceLink(uri=f"{uri_prefix}/{note}", name=f"{name_prefix}{note}", ...)
\*  for note in sorted(notes)]
RECURSIVE NoteLinks(_, _, _)
NoteLinks(notes, uri_prefix, name_prefix) ==
    IF Len(notes) = 0 THEN <<>>
    ELSE <<[uri |-> uri_prefix \o SEP \o notes[1],
            name |-> name_prefix \o notes[1],
            description |-> <<"Markdown note: ">> \o name_prefix \o notes[1],
            mimeType |-> NOTE_MIME_TYPE]>>
         \o NoteLinks(Tail(notes), uri_prefix, name_prefix)

\* notes = list(note for note in os.listdir(directory_path) if ...): the names
\* with the note extension and no dot in front, be they files or directories
notes_in(fs, directory_path) ==
    {note \in listdir(fs, directory_path) :
        EndsWith(note, NOTE_EXTENSION) /\ ~StartsWith(note, <<".">>)}

tool_list_notes(fs, directory, directories) ==
    LET call == Call("list_notes", directory, <<>>, directories)
        directory_path == _normalize_path(NotesDirectory, directory)
        notes == notes_in(fs, directory_path)
        dirlist == {dir \in listdir(fs, directory_path) :
                       isdir(fs, os_path_join(directory_path, dir))
                       /\ ~StartsWith(dir, <<".">>)}
        \* "for directory in sorted(dirlist)" rebinds the parameter: after the
        \* loop it names the last directory listed
        directory_after == IF directories /\ dirlist # {}
                           THEN sorted(dirlist)[Cardinality(dirlist)]
                           ELSE directory
        uri_prefix == IF directory_after # <<>>
                      THEN NOTE_URI_PREFIX \o SEP \o directory_after
                      ELSE NOTE_URI_PREFIX
        name_prefix == IF directory_after # <<>> THEN directory_after \o SEP ELSE <<>>
        summary == [kind |-> IF Cardinality(notes) = 0 THEN "No Markdown notes found in"
                                                       ELSE "Found",
                    count |-> Cardinality(notes),
                    suffix |-> IF Cardinality(notes) = 0 THEN ""
                               ELSE IF Cardinality(notes) # 1 THEN "notes" ELSE "note",
                    display |-> IF directory = <<>> THEN <<"root directory">>
                                ELSE <<"directory '">> \o directory \o <<"'">>,
                    bullets |-> IF Cardinality(notes) = 0 THEN <<>> ELSE sorted(notes),
                    withdirs |-> directories,
                    dircount |-> IF directories THEN Cardinality(dirlist) ELSE 0,
                    dirsuffix |-> IF ~directories THEN ""
                                  ELSE IF Cardinality(dirlist) # 1 THEN "directories"
                                  ELSE "directory",
                    dirbullets |-> IF directories THEN sorted(dirlist) ELSE <<>>]
    IN  IF directory_path = None
        THEN [fs |-> fs, res |-> ConfinementError(call)]
        ELSE IF ~isdir(fs, directory_path)
        THEN [fs |-> fs, res |-> NotFound(call, directory_path)]
        ELSE [fs |-> fs,
              res |-> [call EXCEPT !.status = "ok", !.target = directory_path,
                                   !.summary = summary,
                                   !.links = NoteLinks(sorted(notes), uri_prefix, name_prefix),
                                   !.touched = {directory_path}]]

\* the chain of tests on the extension that sets mime_type; "" is None, which
\* the assert refuses
mime_type_of(path) ==
    IF EndsWith(path, PNG) THEN "image/png"
    ELSE IF EndsWith(path, JPG) THEN "image/jpeg"
    ELSE IF EndsWith(path, GIF) THEN "image/gif"
    ELSE ""

tool_upload_picture(fs, path0, content) ==
    LET call == Call("upload_picture", path0, content, FALSE)
        path == _normalize_path(NotesDirectory, path0)
        fs1 == makedirs(fs, dirname(path))
        made == MissingDirs(fs, dirname(path))
    IN  IF path = None
        THEN [fs |-> fs, res |-> ConfinementError(call)]
        ELSE IF ~\E ext \in PICTURE_EXTENSIONS : EndsWith(path, ext)
        THEN [fs |-> fs, res |-> [call EXCEPT !.status = "UnsupportedExtension",
                                              !.target = path]]
        ELSE IF makedirs_raises(fs, dirname(path))
        THEN [fs |-> fs, res |-> OSError(call, path)]
        ELSE IF open_raises(fs1, path)
        THEN [fs |-> fs1, res |-> [OSError(call, path) EXCEPT !.touched = made]]
        ELSE IF mime_type_of(path) = ""
        THEN [fs |-> write_file(fs1, path, content),
              res |-> [call EXCEPT !.status = "AssertionError", !.target = path,
                                   !.touched = made \cup {path}]]
        ELSE [fs |-> write_file(fs1, path, content),
              res |-> [call EXCEPT !.status = "ok", !.target = path,
                                   !.uri = PICTURE_URI_PREFIX \o SEP \o path,
                                   !.name = path,
                                   !.description = <<"Uploaded image: ">> \o path,
                                   !.mimeType = mime_type_of(path),
                                   !.touched = made \cup {path}]]

\* the uri starts with NOTE_URI_PREFIX (the assert of line 329)
resource_template_notes(fs, uri) ==
    LET call == Call("resource_template_notes", uri, <<>>, FALSE)
        note_path0 == WithExtension(DropFirst(uri, Len(NOTE_URI_PREFIX)))
        note_path == _normalize_path(NotesDirectory, note_path0)
    IN  IF note_path = None
        THEN [fs |-> fs, res |-> ConfinementError(call)]
        ELSE IF ~isfile(fs, note_path)
        THEN [fs |-> fs, res |-> [call EXCEPT !.status = "absent", !.target = note_path]]
        ELSE [fs |-> fs,
              res |-> [call EXCEPT !.status = "ok", !.target = note_path,
                                   !.uri = uri, !.mimeType = NOTE_MIME_TYPE,
                                   !.text = TextRead(fs.files[note_path]),
                                   !.touched = {note_path}]]

\* os.walk(top): the directories it visits, each as the string it yields for
\* it; top is resolved against the working directory, and each directory below
\* is os.path.join(top, name).  The order is that of os.scandir, which nothing fixes.
RECURSIVE os_walk(_, _)
os_walk(fs, top) ==
    {top} \cup UNION {os_walk(fs, os_path_join(top, name)) :
                         name \in {n \in listdir(fs, abspath(top)) :
                                      isdir(fs, os_path_join(abspath(top), n))}}

\* path = root[len(self.NotesDirectory):]
walk_path(root) == DropFirst(root, Len(NotesDirectory))

\* the resource link resource_list_notes builds for file in the directory root
resource_link(root, file) ==
    LET path == walk_path(root)
        stem == DropLast(file, Len(NOTE_EXTENSION))
    IN  IF path # <<>>
        THEN [uri |-> NOTE_URI_PREFIX \o SEP \o path \o SEP \o file,
              name |-> path \o SEP \o stem,
              description |-> <<"Markdown note: ">> \o path \o SEP \o stem,
              mimeType |-> NOTE_MIME_TYPE]
        ELSE [uri |-> NOTE_URI_PREFIX \o SEP \o file,
              name |-> stem,
              description |-> <<"Markdown note: ">> \o stem,
              mimeType |-> NOTE_MIME_TYPE]

resource_list_notes(fs) ==
    LET call == Call("resource_list_notes", <<>>, <<>>, FALSE)
        visited == os_walk(fs, NotesDirectory)
        found == {<<root, file>> \in
                     UNION {{<<r, f>> : f \in listdir(fs, abspath(r))} : r \in visited} :
                        /\ isfile(fs, os_path_join(abspath(root), file))
                        /\ EndsWith(file, NOTE_EXTENSION)}
    IN  [fs |-> fs,
         res |-> [call EXCEPT !.status = "ok", !.target = abspath(NotesDirectory),
                              !.resources = {resource_link(rf[1], rf[2]) : rf \in found},
                              !.touched = {abspath(r) : r \in visited}]]

----------------------------------------------------------------------------
(* The calls explored: the paths, contents and URIs a caller passes        *)

\* Markdown text: one line, and two lines parted by a carriage return and a line feed
Contents == {<<"x">>, <<"x", "CR", "LF", "y">>}

\* the bytes of a picture
Pictures == {<<"p">>}

\* 'a', '//a.md', 's/../a' (one note, spelled three ways), 's/b', 'a.md/c',
\* '' (the note '.md') and '../notes-e' (a sibling of the notes directory
\* whose name starts with its name)
NotePaths ==
    { <<"a">>,
      <<"/", "/", "a", ".", "m", "d">>,
      <<"s", "/", ".", ".", "/", "a">>,
      <<"s", "/", "b">>,
      <<"a", ".", "m", "d", "/", "c">>,
      <<>>,
      <<".", ".", "/", "n", "o", "t", "e", "s", "-", "e">> }

\* '', '/', 's', 'a.md' and '..'
Directories ==
    { <<>>, <<"/">>, <<"s">>, <<"a", ".", "m", "d">>, <<".", ".">> }

\* 'p.png', 's/q.jpg', 'p.gif', 'p.jpeg', 'p.exe' and '../p.png'
PicturePaths ==
    { <<"p", ".", "p", "n", "g">>,
      <<"s", "/", "q", ".", "j", "p", "g">>,
      <<"p", ".", "g", "i", "f">>,
      <<"p", ".", "j", "p", "e", "g">>,
      <<"p", ".", "e", "x", "e">>,
      <<".", ".", "/", "p", ".", "p", "n", "g">> }

\* 'note:///a.md', 'note://s/b' and 'note://../notes-e'
NoteURIs ==
    { NOTE_URI_PREFIX \o <<"/", "a", ".", "m", "d">>,
      NOTE_URI_PREFIX \o <<"s", "/", "b">>,
      NOTE_URI_PREFIX \o <<".", ".", "/", "n", "o", "t", "e", "s", "-", "e">> }

----------------------------------------------------------------------------
(* The server                                                              *)

\* the file beside the notes directory: /w/notes-e.md
OutsideFile == Cwd \o SEP \o <<"n", "o", "t", "e", "s", "-", "e">> \o NOTE_EXTENSION

\* the filesystem the server starts on
Disk == [files |-> [p \in {OutsideFile} |-> <<"x">>], dirs |-> {SEP, Cwd}]

NoProbe == [base_path |-> <<>>, user_path |-> <<>>, applied |-> FALSE, result |-> None]

FS == [files |-> files, dirs |-> dirs]

\* MarkdownNotesMCPHandler.__init__: os.makedirs(self.NotesDirectory, exist_ok=True)
Init ==
    /\ files = makedirs(Disk, abspath(NotesDirectory)).files
    /\ dirs = makedirs(Disk, abspath(NotesDirectory)).dirs
    /\ last = Blank
    /\ calls = <<>>
    /\ probe = NoProbe

\* a handler has run: the filesystem is as it left it, and its outcome is the last one
Ran(out) ==
    /\ files' = out.fs.files
    /\ dirs' = out.fs.dirs
    /\ last' = out.res

CreateOrUpdateNote ==
    \E path \in NotePaths, content \in Contents :
        /\ Ran(tool_create_or_update_note(FS, path, content))
        /\ UNCHANGED <<calls, probe>>

DeleteNote ==
    \E path \in NotePaths :
        /\ Ran(tool_delete_note(FS, path))
        /\ UNCHANGED <<calls, probe>>

ReadNote ==
    \E path \in NotePaths :
        /\ Ran(tool_read_note(FS, path))
        /\ UNCHANGED <<calls, probe>>

ListNotes ==
    \E directory \in Directories, directories \in BOOLEAN :
        /\ Ran(tool_list_notes(FS, directory, directories))
        /\ UNCHANGED <<calls, probe>>

UploadPicture ==
    \E path \in PicturePaths, content \in Pictures :
        /\ Ran(tool_upload_picture(FS, path, content))
        /\ UNCHANGED <<calls, probe>>

ResourceTemplateNotes ==
    \E uri \in NoteURIs :
        /\ Ran(resource_template_notes(FS, uri))
        /\ UNCHANGED <<calls, probe>>

ResourceListNotes ==
    /\ Ran(resource_list_notes(FS))
    /\ UNCHANGED <<calls, probe>>

Next ==
    \/ CreateOrUpdateNote
    \/ DeleteNote
    \/ ReadNote
    \/ ListNotes
    \/ UploadPicture
    \/ ResourceTemplateNotes
    \/ ResourceListNotes

Spec == Init /\ [][Next]_vars

----------------------------------------------------------------------------
(* The MCP service and its callers.  A caller's request is accepted at any *)
(* time, also while others wait; the service then runs the handler of one  *)
(* waiting call.  The handlers hold no await, so the event loop runs each  *)
(* from its first line to its return or raise before it runs another.      *)

MaxCalls == 3

\* 'a' and 'a.md', one note
CallPaths == { <<"a">>, <<"a", ".", "m", "d">> }

\* Markdown text of two lines, parted by a carriage return and a line feed
CallContents == { <<"x", "CR", "LF", "y">> }

Requests ==
    {[op |-> "create_or_update_note", path |-> p, content |-> c] :
        p \in CallPaths, c \in CallContents}
    \cup {[op |-> o, path |-> p, content |-> <<>>] :
             o \in {"delete_note", "read_note"}, p \in CallPaths}

Done == {i \in 1..Len(calls) : calls[i].state = "done"}

Pending == {i \in 1..Len(calls) : calls[i].state = "pending"}

\* the service accepts a request
Invoke ==
    /\ Len(calls) < MaxCalls
    /\ \E r \in Requests :
          calls' = Append(calls, [op |-> r.op, path |-> r.path, content |-> r.content,
                                  state |-> "pending", status |-> "",
                                  description |-> <<>>, text |-> <<>>,
                                  seq |-> 0, others |-> {}])
    /\ UNCHANGED <<files, dirs, last, probe>>

\* call i has run: seq is its place in the order of completion, others the
\* calls that were waiting while it ran
Completed(i, out) ==
    calls' = [calls EXCEPT ![i] = [@ EXCEPT !.state = "done",
                                            !.status = out.res.status,
                                            !.description = out.res.description,
                                            !.text = out.res.text,
                                            !.seq = Cardinality(Done) + 1,
                                            !.others = Pending \ {i}]]

RunCreateOrUpdateNote ==
    \E i \in Pending :
        /\ calls[i].op = "create_or_update_note"
        /\ Ran(tool_create_or_update_note(FS, calls[i].path, calls[i].content))
        /\ Completed(i, tool_create_or_update_note(FS, calls[i].path, calls[i].content))
        /\ UNCHANGED probe

RunDeleteNote ==
    \E i \in Pending :
        /\ calls[i].op = "delete_note"
        /\ Ran(tool_delete_note(FS, calls[i].path))
        /\ Completed(i, tool_delete_note(FS, calls[i].path))
        /\ UNCHANGED probe

RunReadNote ==
    \E i \in Pending :
        /\ calls[i].op = "read_note"
        /\ Ran(tool_read_note(FS, calls[i].path))
        /\ Completed(i, tool_read_note(FS, calls[i].path))
        /\ UNCHANGED probe

NextCalls ==
    \/ Invoke
    \/ RunCreateOrUpdateNote
    \/ RunDeleteNote
    \/ RunReadNote

SpecCalls == Init /\ [][NextCalls]_vars

----------------------------------------------------------------------------
(* _normalize_path on its own, over every short path                       *)

MaxLen == 6

Alphabet == {"/", ".", "n", "e"}

Strings == UNION {[1..n -> Alphabet] : n \in 0..MaxLen}

\* '/n', 'n', '/n/', 'n/e' and '//n'
Roots ==
    { <<"/", "n">>, <<"n">>, <<"/", "n", "/">>, <<"n", "/", "e">>, <<"/", "/", "n">> }

InitConfine ==
    /\ files = Disk.files
    /\ dirs = Disk.dirs
    /\ last = Blank
    /\ calls = <<>>
    /\ probe \in {[base_path |-> r, user_path |-> p, applied |-> FALSE, result |-> None] :
                     r \in Roots, p \in Strings}

Confine ==
    /\ ~probe.applied
    /\ probe' = [probe EXCEPT !.applied = TRUE,
                              !.result = _normalize_path(probe.base_path, probe.user_path)]
    /\ UNCHANGED <<files, dirs, last, calls>>

NextConfine == Confine

SpecConfine == InitConfine /\ [][NextConfine]_vars

----------------------------------------------------------------------------
(* What the claims speak of: a path resolved segment by segment            *)

\* comps applied to the segments in stack: '' and '.' stay, '..' goes up one
\* segment (and stays at the top of the filesystem), a name goes down
RECURSIVE Resolve(_, _)
Resolve(stack, comps) ==
    IF Len(comps) = 0 THEN stack
    ELSE IF comps[1] = <<>> \/ comps[1] = <<".">> THEN Resolve(stack, Tail(comps))
    ELSE IF comps[1] = <<".", ".">>
         THEN Resolve(IF Len(stack) = 0 THEN stack ELSE DropLast(stack, 1), Tail(comps))
    ELSE Resolve(Append(stack, comps[1]), Tail(comps))

\* the canonical form of a path, as its segments from the top of the filesystem
Canonical(path) ==
    IF StartsWith(path, SEP) THEN Resolve(<<>>, Split(path))
    ELSE Resolve(Resolve(<<>>, Split(Cwd)), Split(path))

\* the canonical form of root joined with the caller's path p
CanonicalJoined(root, p) == Resolve(Canonical(root), Split(p))

\* a is b or a directory above b
AtOrAbove(a, b) == Len(a) <= Len(b) /\ SubSeq(b, 1, Len(a)) = a

Inside(root, p) == AtOrAbove(Canonical(root), CanonicalJoined(root, p))

\* the absolute path with these segments
PathOf(segs) == SEP \o JoinSep(segs)

\* C2: for every root and every caller path p, confine(root, p) accepts if
\* and only if root joined with p, resolved segment by segment, is the
\* canonical root or lies below it, and what it accepts is that path.
C2_ConfineIffInside ==
    probe.applied =>
        /\ (probe.result # None) <=> Inside(probe.base_path, probe.user_path)
        /\ probe.result # None =>
               Canonical(probe.result) = CanonicalJoined(probe.base_path, probe.user_path)

\* the same for the roots that do not start with exactly two slashes
C2_ExceptDoubleSlashRoot ==
    InitialSlashes(probe.base_path) # 2 => C2_ConfineIffInside

----------------------------------------------------------------------------
(* C1: confinement of every operation                                      *)

\* the path a call hands to the confinement
CallerPath(call) ==
    IF call.op \in {"create_or_update_note", "delete_note", "read_note"}
    THEN IF EndsWith(call.path, NOTE_EXTENSION) THEN call.path
         ELSE call.path \o NOTE_EXTENSION
    ELSE IF call.op = "resource_template_notes"
    THEN LET rest == DropFirst(call.path, Len(NOTE_URI_PREFIX))
         IN  IF EndsWith(rest, NOTE_EXTENSION) THEN rest ELSE rest \o NOTE_EXTENSION
    ELSE call.path

UnderRoot(abs) == AtOrAbove(Canonical(NotesDirectory), Canonical(abs))

\* C1: whatever the calls and however their paths are spelled, every file or
\* directory a call made, wrote, read or removed lies at or below the root,
\* what lies outside the root is as it was when the server started, and a
\* call whose path resolves outside the root fails with the confinement error.
C1_Confined ==
    /\ \A p \in last.touched : UnderRoot(p)
    /\ \A p \in DOMAIN files : ~UnderRoot(p) => p \in DOMAIN Disk.files
    /\ \A p \in DOMAIN Disk.files : p \in DOMAIN files /\ files[p] = Disk.files[p]
    /\ \A d \in dirs : ~UnderRoot(d) => d \in Disk.dirs
    /\ (last.op \notin {"", "resource_list_notes"}
        /\ ~Inside(NotesDirectory, CallerPath(last)))
           => (last.status = "ConfinementError" /\ last.touched = {})

\* read_note('../notes-e') has been refused while the notes directory holds a
\* note reached through a path with a '..' in it
C1_Witness ==
    /\ last.op = "read_note"
    /\ last.path = <<".", ".", "/", "n", "o", "t", "e", "s", "-", "e">>
    /\ last.status = "ConfinementError"
    /\ PathOf(CanonicalJoined(NotesDirectory, <<"a", ".", "m", "d">>)) \in DOMAIN files

----------------------------------------------------------------------------
(* C3, C4, C10: the calls the service has run, in the order they completed *)

\* the file a note call is about
NoteFile(call) == PathOf(CanonicalJoined(NotesDirectory, CallerPath(call)))

IsDone(i, op) == i \in Done /\ calls[i].op = op

Succeeded(i, op) == IsDone(i, op) /\ calls[i].status = "ok"

\* the calls that created or deleted the note of call j and completed before it
WritersBefore(j) ==
    {k \in Done : /\ calls[k].seq < calls[j].seq
                  /\ calls[k].op \in {"create_or_update_note", "delete_note"}
                  /\ calls[k].status = "ok"
                  /\ NoteFile(calls[k]) = NoteFile(calls[j])}

\* the note of call j did not exist when j ran: nothing had created it, or
\* the last call that wrote it was a delete
AbsentBefore(j) ==
    \A k \in WritersBefore(j) :
        calls[k].op = "create_or_update_note" =>
            \E d \in WritersBefore(j) : calls[d].op = "delete_note" /\ calls[d].seq > calls[k].seq

\* C3: createOrUpdate(p, c) on a valid note path succeeds, and a read(p') that
\* follows it returns exactly c, for p' equal to p up to the trailing '.md'.
C3_RoundTrip ==
    \A i \in Done :
        calls[i].op = "create_or_update_note" =>
            /\ calls[i].status = "ok"
            /\ \A j \in Done :
                   (/\ calls[j].op = "read_note"
                    /\ calls[j].seq = calls[i].seq + 1
                    /\ NoteFile(calls[j]) = NoteFile(calls[i]))
                   => (calls[j].status = "ok" /\ calls[j].text = calls[i].content)

\* C4 (the log): a delete or a read of a note that does not exist (never
\* created, or deleted and not created since) fails with NotFound.
C4_AbsentIsNotFound ==
    \A j \in Done :
        (calls[j].op \in {"delete_note", "read_note"} /\ AbsentBefore(j))
            => calls[j].status = "NotFound"

\* C4 (the step): a delete that fails with NotFound leaves the store as it was,
\* and a delete that succeeds leaves no file at the note's path.
C4_DeleteStep ==
    \A i \in Pending :
        (i \in Done' /\ calls[i].op = "delete_note") =>
            /\ calls'[i].status = "NotFound" => (files' = files /\ dirs' = dirs)
            /\ calls'[i].status = "ok" => NoteFile(calls[i]) \notin DOMAIN files'

\* C4: delete(p) on a note that does not exist fails with NotFound and leaves
\* the store unchanged; after a successful delete(p), read(p) and a second
\* delete(p) fail with NotFound until a createOrUpdate of the same note.
C4_DeleteNotFound == [][C4_DeleteStep]_vars /\ []C4_AbsentIsNotFound

\* a note was created, deleted, and the second delete failed with NotFound
C4_Witness ==
    \E i, j, k \in Done :
        /\ Succeeded(i, "create_or_update_note") /\ calls[i].seq = 1
        /\ Succeeded(j, "delete_note") /\ calls[j].seq = 2
        /\ IsDone(k, "delete_note") /\ calls[k].seq = 3 /\ calls[k].status = "NotFound"
        /\ NoteFile(calls[i]) = NoteFile(calls[j])
        /\ NoteFile(calls[j]) = NoteFile(calls[k])

\* C10 (the log): a successful createOrUpdate reports 'Created' if the note did
\* not exist when it ran and 'Updated' if it did, so that of successive ones
\* with no delete in between exactly the first reports 'Created'.
C10_ReportsInOrder ==
    \A j \in Done :
        Succeeded(j, "create_or_update_note") =>
            calls[j].description = IF AbsentBefore(j) THEN <<"Created a Markdown note">>
                                                      ELSE <<"Updated a Markdown note">>

\* C10 (the step): the report says 'Created' exactly when the file was not
\* there in the state the call ran in, and the file is there afterwards.
C10_CreateStep ==
    \A i \in Pending :
        (i \in Done' /\ calls[i].op = "create_or_update_note" /\ calls'[i].status = "ok") =>
            /\ (calls'[i].description = <<"Created a Markdown note">>)
                   <=> (NoteFile(calls[i]) \notin DOMAIN files)
            /\ NoteFile(calls[i]) \in DOMAIN files'

----------------------------------------------------------------------------
(* C5: the pictures accepted                                               *)

HasDot(s) == \E i \in 1..Len(s) : s[i] = "."

LastDot(s) == CHOOSE i \in 1..Len(s) : s[i] = "." /\ \A j \in (i + 1)..Len(s) : s[j] # "."

\* the extension of the final segment of a path, with its dot
FinalExtension(p) ==
    LET segs == CanonicalJoined(NotesDirectory, p)
        final == IF Len(segs) = 0 THEN <<>> ELSE segs[Len(segs)]
    IN  IF HasDot(final) THEN SubSeq(final, LastDot(final), Len(final)) ELSE <<>>

JPEG == <<".", "j", "p", "e", "g">>

\* the extensions the allow-list is said to hold
AllowListed == {JPG, JPEG, PNG, GIF}

\* C5: upload(p, data) on a confined path succeeds if and only if the
\* extension of p's final segment is one of '.jpg', '.jpeg', '.png', '.gif',
\* and fails with UnsupportedExtension otherwise; the MIME type returned is
\* image/png for '.png', image/gif for '.gif', image/jpeg for '.jpg' and '.jpeg'.
C5_UploadAllowList ==
    (last.op = "upload_picture" /\ Inside(NotesDirectory, last.path)) =>
        IF FinalExtension(last.path) \in AllowListed
        THEN /\ last.status = "ok"
             /\ last.mimeType = (IF FinalExtension(last.path) = PNG THEN "image/png"
                                 ELSE IF FinalExtension(last.path) = GIF THEN "image/gif"
                                 ELSE "image/jpeg")
        ELSE last.status = "UnsupportedExtension"

----------------------------------------------------------------------------
(* C6, C8: list_notes                                                      *)

\* the directory a list call is about
ListedDirectory(call) == PathOf(CanonicalJoined(NotesDirectory, call.path))

\* the names of the notes stored directly in directory d: regular files with
\* the note extension whose name does not start with a dot
NotesStoredIn(d) ==
    {basename(f) : f \in {g \in DOMAIN files :
                             /\ dirname(g) = d
                             /\ EndsWith(basename(g), NOTE_EXTENSION)
                             /\ ~StartsWith(basename(g), <<".">>)}}

\* C6: list(d) on an existing directory returns one resource link for exactly
\* each non-hidden note stored directly in d, in lexicographic order, and its
\* summary states that count: '1 note', 'N notes', or that no notes were found.
C6_ListExactlyNotes ==
    (last.op = "list_notes" /\ last.status = "ok") =>
        LET expected == sorted(NotesStoredIn(ListedDirectory(last)))
        IN  /\ Len(last.links) = Len(expected)
            /\ \A i \in 1..Len(last.links) :
                   basename(last.links[i].name) = expected[i]
            /\ last.summary.count = Len(expected)
            /\ last.summary.bullets = expected
            /\ last.summary.kind = (IF Len(expected) = 0 THEN "No Markdown notes found in"
                                    ELSE "Found")
            /\ last.summary.suffix = (IF Len(expected) = 0 THEN ""
                                      ELSE IF Len(expected) = 1 THEN "note" ELSE "notes")

\* C8: for every resource link list(d) returns, read with the link's URI as
\* its path returns the content of that note, and so does read with the
\* link's name.
C8_LinksReadable ==
    (last.op = "list_notes" /\ last.status = "ok") =>
        \A i \in 1..Len(last.links) :
            LET note == os_path_join(ListedDirectory(last), last.summary.bullets[i])
                by_uri == tool_read_note(FS, last.links[i].uri).res
                by_name == tool_read_note(FS, last.links[i].name).res
            IN  /\ by_uri.status = "ok" /\ by_uri.target = note
                /\ by_name.status = "ok" /\ by_name.target = note

----------------------------------------------------------------------------
(* C7: resource_list_notes                                                 *)

\* the note files at any depth under the root
NoteFilesUnderRoot ==
    {f \in DOMAIN files : UnderRoot(f) /\ EndsWith(f, NOTE_EXTENSION)}

\* the path of f relative to the root, its segments joined by single separators
RelativePath(f) ==
    JoinSep(SubSeq(Canonical(f), Len(Canonical(NotesDirectory)) + 1, Len(Canonical(f))))

\* C7: listAll() returns exactly one resource link per note file under the
\* root, whose URI is 'note://' '/' and the note's path relative to the root,
\* and whose name is that path without the extension: no separator is
\* doubled, missing, or put in front, for a note in the root or below it.
C7_ListAllLinks ==
    last.op = "resource_list_notes" =>
        /\ Cardinality(last.resources) = Cardinality(NoteFilesUnderRoot)
        /\ {[uri |-> r.uri, name |-> r.name] : r \in last.resources}
               = {[uri |-> NOTE_URI_PREFIX \o SEP \o RelativePath(f),
                   name |-> DropLast(RelativePath(f), Len(NOTE_EXTENSION))] :
                     f \in NoteFilesUnderRoot}

----------------------------------------------------------------------------
(* C9: directories                                                         *)

\* C9 (the step): no directory goes away; a successful delete removes the
\* file of its note and nothing else; a directory appears only in a successful
\* createOrUpdate or upload, above the file that call wrote.
C9_Step ==
    /\ dirs \subseteq dirs'
    /\ (last'.op = "delete_note" /\ last'.status = "ok") =>
           /\ NoteFile(last') \in DOMAIN files
           /\ DOMAIN files' = DOMAIN files \ {NoteFile(last')}
           /\ \A f \in DOMAIN files' : files'[f] = files[f]
           /\ dirs' = dirs
    /\ dirs' # dirs =>
           /\ last'.op \in {"create_or_update_note", "upload_picture"}
           /\ last'.status = "ok"
           /\ last'.target \in DOMAIN files'
           /\ \A d \in dirs' \ dirs : d # last'.target /\ AtOrAbove(Canonical(d), Canonical(last'.target))

\* C9: directories are never removed: a successful delete(p) removes only the
\* file of note p and leaves its parent directory (even when now empty), every
\* other note and every asset unchanged; the set of directories only grows, a
\* directory being created only by a createOrUpdate or upload into it.
C9_DirectoriesStay == [][C9_Step]_vars

\* the only note of a directory below the root has been deleted: the directory is empty
C9_Witness ==
    /\ last.op = "delete_note"
    /\ last.status = "ok"
    /\ dirname(last.target) # abspath(NotesDirectory)
    /\ dirname(last.target) \in dirs
    /\ listdir(FS, dirname(last.target)) = {}

=============================================================================
